---- MODULE Spec2Model ----
(***************************************************************************)
(* Model of the leoai message-processing pipeline: the service layer       *)
(* (services/__init__.py and the collaborator wrappers it calls), the      *)
(* signature check (utils/security.py) and the webhook route (routes.py).  *)
(*                                                                         *)
(* Every handler is one action.  A handler's run is computed by an         *)
(* operator that threads a "run" record through the statements of the      *)
(* code:                                                                   *)
(*    calls : the collaborator calls made so far, in order                 *)
(*    rows  : the rows the spreadsheet has accepted during the run         *)
(*    exc   : "" while running normally, else the pending exception        *)
(*    ret   : the value returned (where the code returns one)              *)
(***************************************************************************)
EXTENDS Naturals, Sequences, FiniteSets, TLC

VARIABLES op, ev, calls, rows, result, ret

\* services/secrets.py: the module's state, the calls of get_secret in
\* progress (one per thread), and what the calls have written and returned.
VARIABLES CLIENT_AVAILABLE, GOOGLE_CLOUD_PROJECT, cache, upstream, thread,
          writes, returned, ncalls

secretVars == <<CLIENT_AVAILABLE, GOOGLE_CLOUD_PROJECT, cache, upstream, thread,
                writes, returned, ncalls>>

vars == <<op, ev, calls, rows, result, ret, CLIENT_AVAILABLE, GOOGLE_CLOUD_PROJECT,
          cache, upstream, thread, writes, returned, ncalls>>

(***************************************************************************)
(* Python values.  Every value is a record of the same shape so that any   *)
(* two of them can be compared.                                            *)
(***************************************************************************)
None == [t |-> "none", v |-> ""]

Str(s) == [t |-> "str", v |-> s]

Num(s) == [t |-> "num", v |-> s]

Bool(b) == [t |-> "bool", v |-> IF b THEN "true" ELSE "false"]

\* Python truthiness (bool(x)).
Truthy(x) ==
    CASE x.t = "none" -> FALSE
      [] x.t = "bool" -> x.v = "true"
      [] x.t = "num"  -> x.v # "0"
      [] OTHER        -> x.v # ""

\* Python's  a or b .
Or(a, b) == IF Truthy(a) THEN a ELSE b

\* dict.get(key, default) on a JSON object modelled as a function.
Get(d, key, default) == IF key \in DOMAIN d THEN d[key] ELSE default

(***************************************************************************)
(* Runs and calls.                                                         *)
(***************************************************************************)
NewRun == [calls |-> <<>>, rows |-> <<>>, exc |-> "", ret |-> None]

\* A collaborator call: its name, the recipient and text (notifications), its
\* other arguments, and what became of it.
Call(name, to, msg, args, st) ==
    [op |-> name, to |-> to, msg |-> msg, args |-> args, st |-> st]

Do(r, c) == [r EXCEPT !.calls = Append(@, c)]

Raise(r, e) == [r EXCEPT !.exc = e]

Return(r, x) == [r EXCEPT !.ret = x]

(***************************************************************************)
(* Notification texts (services/__init__.py; emoji prefixes left out).     *)
(***************************************************************************)
MsgDenied == Str("Lo siento, no eres un usuario autorizado para usar este chat.")

MsgBadPayload == Str("Could not parse WhatsApp webhook payload.")

MsgEmptyAi == Str("AI response was empty. Cannot process further.")

MsgInvalidExpense == Str("Invalid expense. Not saving to Google Sheets.")

MsgSuccess == Str("Listo! Datos agregados correctamente a tu Google Sheet.")

MsgNotJson == Str("Could not parse AI response as JSON")

MsgDataPreparation == Str("An error occurred during data preparation:")

(***************************************************************************)
(* services/whatsapp_service.py                                            *)
(***************************************************************************)
\* send_whatsapp_message: returns without a request when a credential is
\* missing, otherwise posts; a RequestException is logged.  Never raises.
send_whatsapp_message(r, to, message, env) ==
    IF env.wa = "no_creds"
    THEN Do(r, Call("send_whatsapp_message", to, message, <<>>, "no_creds"))
    ELSE IF env.wa = "http_error"
    THEN Do(r, Call("send_whatsapp_message", to, message, <<>>, "http_error"))
    ELSE Do(r, Call("send_whatsapp_message", to, message, <<>>, "delivered"))

\* get_media_url: the url, or None when the token is missing or the request fails.
get_media_url(r, media_id, env) ==
    LET r1 == Do(r, Call("get_media_url", None, None, <<media_id>>, env.url))
    IN  Return(r1, IF env.url = "ok" THEN Str("https://media/url") ELSE None)

\* download_media_content: the bytes (possibly empty), or None on failure.
download_media_content(r, media_url, env) ==
    LET r1 == Do(r, Call("download_media_content", None, None, <<media_url>>, env.download))
    IN  Return(r1, CASE env.download = "ok"    -> Str("BYTES")
                     [] env.download = "empty" -> Str("")
                     [] OTHER                  -> None)

(***************************************************************************)
(* services/ai_service.py                                                  *)
(***************************************************************************)
\* The text of an AI response: Python None, the empty string, text that is not
\* JSON, JSON that is not an object, or a JSON object (a function from its keys
\* to values).
AiText(kind, obj) == [kind |-> kind, obj |-> obj]

AiNone == AiText("none", <<>>)

DefaultPrompt == Str("Analiza este documento.")

\* process_with_gemini without the except clause of lines 90-92: a failing
\* generate_content call leaves the function as an exception.
process_with_gemini_unguarded(r, text, file_bytes, mimetype, env) ==
    IF env.gemini = "no_client"
    THEN Return(r, AiNone)
    ELSE LET r1 == Do(r, Call("generate_content", None, None, <<text>>, env.gemini))
         IN  IF env.gemini = "raises"
             THEN Raise(r1, "Exception")
             ELSE Return(r1, env.ai)

\* process_with_gemini: None without a client or when the call raises, else
\* response.text.  The parts list is built (lines 58-69) but the request is
\* sent with contents=text (line 77).
process_with_gemini(r, text, file_bytes, mimetype, env) ==
    IF env.gemini = "no_client"
    THEN Return(r, AiNone)
    ELSE LET parts == (IF Truthy(file_bytes) /\ Truthy(mimetype)
                       THEN <<file_bytes, mimetype>> ELSE <<>>)
                      \o <<IF Truthy(text) THEN text ELSE DefaultPrompt>>
             r1 == Do(r, Call("generate_content", None, None, <<text>>, env.gemini))
         IN  IF env.gemini = "raises"
             THEN Return(r1, AiNone)
             ELSE Return(r1, env.ai)

(***************************************************************************)
(* services/google_service.py                                              *)
(***************************************************************************)
\* _get_google_creds: default() may raise (only JSONDecodeError and TypeError
\* are caught); a missing secret gives (None, None, None).
get_google_creds(r, env) ==
    CASE env.sheet = "creds_raise" -> Raise(r, "DefaultCredentialsError")
      [] env.sheet = "no_creds"    -> Return(r, None)
      [] OTHER                     -> Return(r, Str("creds"))

\* add_row_to_sheet: returns silently without credentials; an exception of
\* the append is logged and swallowed; the FileNotFoundError handler formats
\* the undefined name creds_path.
add_row_to_sheet(r, data_row, env) ==
    LET r0 == Do(r, Call("add_row_to_sheet", None, None, data_row, env.sheet))
        r1 == get_google_creds(r0, env)
    IN  IF r1.exc # "" THEN r1
        ELSE IF ~Truthy(r1.ret) THEN Return(r1, None)
        ELSE CASE env.sheet = "append_raise"   -> Return(r1, None)
               [] env.sheet = "file_not_found" -> Raise(r1, "NameError")
               [] OTHER -> Return([r1 EXCEPT !.rows = Append(@, data_row)], None)

\* upload_file_to_drive: create the file, share it, return its link; any
\* exception gives None.
upload_file_to_drive(r, file_bytes, filename, folder_id, mimetype, env) ==
    LET r1 == Do(r, Call("files.create", None, None, <<filename, folder_id, mimetype>>, env.drive))
    IN  IF env.drive = "create_raise" THEN Return(r1, None)
        ELSE LET r2 == Do(r1, Call("permissions.create", None, None, <<>>, env.drive))
             IN  IF env.drive = "share_raise" THEN Return(r2, None)
                 ELSE Return(r2, Str("https://drive/link"))

\* get_folder_id_by_date: line 87 calls datetime.strptime on the datetime
\* MODULE (google_service.py imports datetime, not datetime.datetime), which
\* has no such attribute.
get_folder_id_by_date(r, root_id, full_date, env) ==
    Raise(r, "AttributeError")

\* save_file without its try/except: the exception of the folder lookup
\* reaches the caller.
save_file_unguarded(r, file_bytes, date, file_name, mimetype, env) ==
    LET r0 == Do(r, Call("save_file", None, None, <<date, file_name, mimetype>>, env.drive))
        r1 == get_folder_id_by_date(r0, Str("root"), date, env)
    IN  IF r1.exc # ""
        THEN r1
        ELSE upload_file_to_drive(r1, file_bytes, file_name, r1.ret, mimetype, env)

\* save_file: folder lookup then upload, everything inside try/except
\* Exception, which returns None.
save_file(r, file_bytes, date, file_name, mimetype, env) ==
    LET r0 == Do(r, Call("save_file", None, None, <<date, file_name, mimetype>>, env.drive))
        r1 == get_folder_id_by_date(r0, Str("root"), date, env)
    IN  IF r1.exc # ""
        THEN Return([r1 EXCEPT !.exc = ""], None)
        ELSE upload_file_to_drive(r1, file_bytes, file_name, r1.ret, mimetype, env)

(***************************************************************************)
(* services/__init__.py : handle_ai_response                               *)
(***************************************************************************)
\* The characters of the strings that the code slices or rewrites.
Chars(x) ==
    CASE x.t = "none"   -> <<"N", "o", "n", "e">>
      [] x.v = "rent"   -> <<"r", "e", "n", "t">>
      [] x.v = "pago de administracion 2024" ->
            <<"p", "a", "g", "o", " ", "d", "e", " ", "a", "d", "m", "i", "n",
              "i", "s", "t", "r", "a", "c", "i", "o", "n", " ", "2", "0", "2", "4">>
      [] x.v = "2024-01-01 10:00:00" ->
            <<"2", "0", "2", "4", "-", "0", "1", "-", "0", "1", " ",
              "1", "0", ":", "0", "0", ":", "0", "0">>
      [] OTHER -> <<>>

\* str.replace(old, new) for single characters.
Replace(cs, old, new) == [i \in 1..Len(cs) |-> IF cs[i] = old THEN new ELSE cs[i]]

\* cs[:n]
Prefix(cs, n) == SubSeq(cs, 1, IF Len(cs) < n THEN Len(cs) ELSE n)

MaxConceptLen == 20

\* "pdf" in mimetype
HasPdf(mimetype) == mimetype.v = "application/pdf"

\* Line 128 as it would read with sender_phone: the message is sent and the
\* function goes on.
notify_invalid_expense_sent(r, sender_phone, error_message, env) ==
    send_whatsapp_message(r, sender_phone, error_message, env)

\* Line 128 names sender_number, which is defined nowhere: evaluating the
\* arguments raises NameError before send_whatsapp_message is entered.
notify_invalid_expense(r, sender_phone, error_message, env) ==
    Raise(r, "NameError")

\* Lines 130-176 with the row in the column order of the earlier layout
\* (timestamp and sender first).
persist_expense_old_columns(r, timestamp, sender_phone, expense_data, file_bytes, mimetype, env) ==
    LET concept == Get(expense_data, "concept", Str(""))
        row_to_add == <<timestamp,
                        sender_phone,
                        Or(Get(expense_data, "date", None), timestamp),
                        concept,
                        Get(expense_data, "amount", Str("")),
                        Get(expense_data, "currency", Str("")),
                        Get(expense_data, "category", Str("")),
                        Get(expense_data, "subcategory", Str("")),
                        Str("")>>
        r2 == add_row_to_sheet(r, row_to_add, env)
    IN  IF r2.exc # "" THEN r2
        ELSE send_whatsapp_message(r2, sender_phone, MsgSuccess, env)

\* Lines 130-176: file name, upload, row, append, success message.
persist_expense(r, timestamp, sender_phone, expense_data, file_bytes, mimetype, env) ==
    LET date_for_drive == Or(Get(expense_data, "date", None), timestamp)
        folder  == Get(expense_data, "folder", Str("Unknown"))
        concept == Get(expense_data, "concept", Str(""))
        ext == IF HasPdf(mimetype) THEN ".pdf" ELSE ".jpg"
        clean_concept == Prefix(Replace(Chars(concept), " ", "_"), MaxConceptLen)
        file_name == [folder  |-> folder,
                      concept |-> clean_concept,
                      stamp   |-> Replace(Replace(Chars(timestamp), " ", "_"), ":", "-"),
                      ext     |-> ext]
        r1 == IF Truthy(file_bytes) /\ Truthy(mimetype)
              THEN save_file(r, file_bytes, date_for_drive, file_name, mimetype, env)
              ELSE Return(r, Str(""))
        link_drive == r1.ret
        row_to_add == <<date_for_drive,
                        concept,
                        Get(expense_data, "amount", Str("")),
                        Get(expense_data, "currency", Str("")),
                        Get(expense_data, "category", Str("")),
                        Get(expense_data, "subcategory", Str("")),
                        sender_phone,
                        timestamp,
                        link_drive>>
        r2 == add_row_to_sheet(r1, row_to_add, env)
    IN  IF r1.exc # "" THEN r1
        ELSE IF r2.exc # "" THEN r2
        ELSE send_whatsapp_message(r2, sender_phone, MsgSuccess, env)

\* Lines 115-176, the body of the try block.
ai_response_body(r, timestamp, sender_phone, ai_response, file_bytes, mimetype, env) ==
    CASE ai_response.kind = "notjson"   -> Raise(r, "JSONDecodeError")
      [] ai_response.kind = "nonobject" -> Raise(r, "AttributeError")
      [] OTHER ->
          LET expense_data  == ai_response.obj
              valid_expense == Or(Get(expense_data, "valid_expense", None), Bool(FALSE))
              error_message == Or(Get(expense_data, "message", None), MsgInvalidExpense)
              r1 == IF ~Truthy(valid_expense)
                    THEN notify_invalid_expense(r, sender_phone, error_message, env)
                    ELSE r
          IN  IF r1.exc # "" THEN r1
              ELSE persist_expense(r1, timestamp, sender_phone, expense_data,
                                   file_bytes, mimetype, env)

\* handle_ai_response without the except json.JSONDecodeError clause: every
\* exception of the body gets the data-preparation message.
handle_ai_response_one_handler(r, timestamp, sender_phone, ai_response, file_bytes, mimetype, env) ==
    IF ai_response.kind \in {"none", "empty"}
    THEN Return(send_whatsapp_message(r, sender_phone, MsgEmptyAi, env), None)
    ELSE LET b == ai_response_body(r, timestamp, sender_phone, ai_response,
                                   file_bytes, mimetype, env)
         IN  Return(IF b.exc = "" THEN b
                    ELSE send_whatsapp_message([b EXCEPT !.exc = ""], sender_phone,
                                               MsgDataPreparation, env),
                    None)

handle_ai_response(r, timestamp, sender_phone, ai_response, file_bytes, mimetype, env) ==
    IF ai_response.kind \in {"none", "empty"}
    THEN Return(send_whatsapp_message(r, sender_phone, MsgEmptyAi, env), None)
    ELSE LET b == ai_response_body(r, timestamp, sender_phone, ai_response,
                                   file_bytes, mimetype, env)
         IN  Return(CASE b.exc = "" -> b
                      [] b.exc = "JSONDecodeError" ->
                           send_whatsapp_message([b EXCEPT !.exc = ""], sender_phone,
                                                 MsgNotJson, env)
                      [] OTHER ->
                           send_whatsapp_message([b EXCEPT !.exc = ""], sender_phone,
                                                 MsgDataPreparation, env),
                    None)

(***************************************************************************)
(* services/__init__.py : process_media_message, handle_whatsapp_message   *)
(***************************************************************************)
\* A local name that no assignment has bound yet.
Unbound == [t |-> "unbound", v |-> ""]

\* The allow-list lookup.  google_service.py defines no get_authorized_users;
\* it is modelled from the specification's AuthorizationList: the set of
\* permitted sender ids, fetched once per event.
get_authorized_users(r, env) ==
    Return(Do(r, Call("get_authorized_users", None, None, <<>>, "ok")), env.allowed)

\* process_media_message without the check of lines 86-89: the AI is asked
\* even when the download gave no bytes.
process_media_message_unchecked_bytes(r, sender_phone, media_id, caption, timestamp, message_type, env) ==
    LET r1 == get_media_url(r, media_id, env)
        media_url == r1.ret
    IN  IF ~Truthy(media_url)
        THEN Return(r1, [ai |-> AiNone, file_bytes |-> None])
        ELSE LET r2 == download_media_content(r1, media_url, env)
                 file_bytes == r2.ret
                 r3 == process_with_gemini(r2, caption, file_bytes, None, env)
             IN  IF r3.exc # "" THEN r3
                 ELSE Return(r3, [ai |-> r3.ret, file_bytes |-> file_bytes])

\* process_media_message: url, bytes, then the AI; (None, None) when either
\* of the first two gives nothing.
process_media_message(r, sender_phone, media_id, caption, timestamp, message_type, env) ==
    LET r1 == get_media_url(r, media_id, env)
        media_url == r1.ret
    IN  IF ~Truthy(media_url)
        THEN Return(r1, [ai |-> AiNone, file_bytes |-> None])
        ELSE LET r2 == download_media_content(r1, media_url, env)
                 file_bytes == r2.ret
             IN  IF ~Truthy(file_bytes)
                 THEN Return(r2, [ai |-> AiNone, file_bytes |-> None])
                 ELSE LET r3 == process_with_gemini(r2, caption, file_bytes, None, env)
                      IN  IF r3.exc # "" THEN r3
                          ELSE Return(r3, [ai |-> r3.ret, file_bytes |-> file_bytes])

\* Line 54: the call passes a sixth argument, historial, a name defined
\* nowhere; evaluating it raises NameError before process_media_message runs.
call_process_media_message(r, sender_phone, media_id, caption, timestamp, message_type, env) ==
    Raise(r, "NameError")

\* Line 19: data['entry'][0]['changes'][0]['value']['messages'][0]
first_message(data) ==
    IF "entry" \notin DOMAIN data THEN [exc |-> "KeyError", val |-> <<>>]
    ELSE IF Len(data["entry"]) = 0 THEN [exc |-> "IndexError", val |-> <<>>]
    ELSE LET entry == data["entry"][1]
         IN  IF "changes" \notin DOMAIN entry THEN [exc |-> "KeyError", val |-> <<>>]
             ELSE IF Len(entry["changes"]) = 0 THEN [exc |-> "IndexError", val |-> <<>>]
             ELSE LET change == entry["changes"][1]
                  IN  IF "value" \notin DOMAIN change THEN [exc |-> "KeyError", val |-> <<>>]
                      ELSE IF "messages" \notin DOMAIN change["value"]
                      THEN [exc |-> "KeyError", val |-> <<>>]
                      ELSE IF Len(change["value"]["messages"]) = 0
                      THEN [exc |-> "IndexError", val |-> <<>>]
                      ELSE [exc |-> "", val |-> change["value"]["messages"][1]]

\* Lines 31-59: classification, extraction and the hand-over to
\* handle_ai_response, for an authorized sender.
dispatch_message(r, message_data, sender_phone, env) ==
    LET timestamp    == env.now
        message_type == Get(message_data, "type", None)
    IN  IF message_type = Str("text")
        THEN IF "text" \notin DOMAIN message_data THEN Raise(r, "KeyError")
             ELSE IF "body" \notin DOMAIN message_data["text"] THEN Raise(r, "KeyError")
             ELSE LET r1 == process_with_gemini(r, message_data["text"]["body"], None, None, env)
                  IN  IF r1.exc # "" THEN r1
                      ELSE handle_ai_response(r1, timestamp, sender_phone, r1.ret,
                                              None, None, env)
        ELSE IF message_type \in {Str("image"), Str("document")}
        THEN IF message_type.v \notin DOMAIN message_data THEN Raise(r, "KeyError")
             ELSE LET media_info == message_data[message_type.v]
                  IN  IF "id" \notin DOMAIN media_info THEN Raise(r, "KeyError")
                      ELSE IF "mime_type" \notin DOMAIN media_info THEN Raise(r, "KeyError")
                      ELSE LET mimetype == media_info["mime_type"]
                               caption  == Get(media_info, "caption", Str(""))
                               r1 == call_process_media_message(r, sender_phone,
                                         media_info["id"], caption, timestamp,
                                         message_type, env)
                           IN  IF r1.exc # "" THEN r1
                               ELSE handle_ai_response(r1, timestamp, sender_phone,
                                        r1.ret.ai, r1.ret.file_bytes, mimetype, env)
        ELSE handle_ai_response(r, timestamp, sender_phone, AiNone, None, None, env)

\* The try block without the return of line 27: the denial is sent and the
\* message is processed all the same.
whatsapp_message_body_no_return(r, data, env) ==
    LET m == first_message(data)
    IN  IF m.exc # "" THEN [run |-> Raise(r, m.exc), sender_phone |-> Unbound]
        ELSE IF "from" \notin DOMAIN m.val
        THEN [run |-> Raise(r, "KeyError"), sender_phone |-> Unbound]
        ELSE LET sender_phone == m.val["from"]
                 r1 == get_authorized_users(r, env)
                 r2 == IF sender_phone \notin r1.ret
                       THEN send_whatsapp_message(r1, sender_phone, MsgDenied, env)
                       ELSE r1
             IN  [run |-> dispatch_message(r2, m.val, sender_phone, env),
                  sender_phone |-> sender_phone]

\* Lines 19-59, the body of the try block; sender_phone says whether line 20
\* has bound the name when the body ends.
whatsapp_message_body(r, data, env) ==
    LET m == first_message(data)
    IN  IF m.exc # "" THEN [run |-> Raise(r, m.exc), sender_phone |-> Unbound]
        ELSE IF "from" \notin DOMAIN m.val
        THEN [run |-> Raise(r, "KeyError"), sender_phone |-> Unbound]
        ELSE LET sender_phone == m.val["from"]
                 r1 == get_authorized_users(r, env)
             IN  IF sender_phone \notin r1.ret
                 THEN [run |-> send_whatsapp_message(r1, sender_phone, MsgDenied, env),
                       sender_phone |-> sender_phone]
                 ELSE [run |-> dispatch_message(r1, m.val, sender_phone, env),
                       sender_phone |-> sender_phone]

\* handle_whatsapp_message: the try block and its except (KeyError,
\* IndexError) clause, which notifies sender_phone.
handle_whatsapp_message(r, data, env) ==
    LET b == whatsapp_message_body(r, data, env)
    IN  Return(IF b.run.exc \in {"KeyError", "IndexError"}
               THEN IF b.sender_phone = Unbound
                    THEN Raise(b.run, "UnboundLocalError")
                    ELSE send_whatsapp_message([b.run EXCEPT !.exc = ""], b.sender_phone,
                                               MsgBadPayload, env)
               ELSE b.run,
               None)

(***************************************************************************)
(* utils/security.py                                                       *)
(***************************************************************************)
\* Header values: None, or a string.  A string is a literal (v), or "sha256="
\* (or nothing) followed by the hex digest of a body under a key.
NoHeader == [t |-> "none", v |-> "", key |-> "", body |-> ""]

Literal(v) == [t |-> "str", v |-> v, key |-> "", body |-> ""]

\* prefix + hmac.new(key, body, sha256).hexdigest(); the digest is taken to
\* be free of collisions, so it is its (key, body) pair.
Signed(prefix, key, body) == [t |-> "str", v |-> prefix, key |-> key, body |-> body]

\* validate_whatsapp_signature: False without a header, AttributeError when
\* secret is None (secret.encode), TypeError from compare_digest when the
\* header holds a non-ASCII character, else the comparison.
validate_whatsapp_signature(r, request_body, signature, secret) ==
    IF signature.t = "none" \/ (signature.v = "" /\ signature.key = "")
    THEN Return(r, Bool(FALSE))
    ELSE IF secret = None THEN Raise(r, "AttributeError")
    ELSE LET expected_signature == Signed("sha256=", secret.v, request_body)
         IN  IF signature.v = "non-ascii" THEN Raise(r, "TypeError")
             ELSE Return(r, Bool(/\ expected_signature.v = signature.v
                                 /\ expected_signature.key = signature.key
                                 /\ expected_signature.body = signature.body))

(***************************************************************************)
(* routes.py                                                               *)
(***************************************************************************)
\* The collaborators routes.py names that the service modules do not define
\* (ai_service.get_gemini_response, google_service.append_to_sheet,
\* whatsapp_service.download_media, google_service.upload_to_drive,
\* google_service.log_drive_url), modelled from the specification's
\* collaborator contracts: each returns its result or nothing on failure.
get_gemini_response(r, text, env) ==
    LET r1 == Do(r, Call("get_gemini_response", None, None, <<text>>, env.gemini))
    IN  Return(r1, IF env.gemini = "responds" THEN env.ai ELSE AiNone)

append_to_sheet(r, ai_response, env) ==
    LET r1 == Do(r, Call("append_to_sheet", None, None, <<ai_response>>, env.sheet))
    IN  IF env.sheet = "ok"
        THEN Return([r1 EXCEPT !.rows = Append(@, <<ai_response>>)], None)
        ELSE Return(r1, None)

download_media(r, media_url, env) ==
    LET r1 == Do(r, Call("download_media", None, None, <<media_url>>, env.download))
    IN  Return(r1, CASE env.download = "ok"    -> Str("BYTES")
                     [] env.download = "empty" -> Str("")
                     [] OTHER                  -> None)

upload_to_drive(r, media_content, filename, env) ==
    LET r1 == Do(r, Call("upload_to_drive", None, None, <<filename>>, env.drive))
    IN  Return(r1, IF env.drive = "ok" THEN Str("https://drive/link") ELSE None)

log_drive_url(r, drive_url, env) ==
    Return(Do(r, Call("log_drive_url", None, None, <<drive_url>>, "ok")), None)

\* handle_message: text goes to the AI and the sheet, an image to Drive; any
\* other type is ignored.
handle_message(r, message, env) ==
    LET r0 == Do(r, Call("handle_message", Get(message, "from", None), None, <<>>, "called"))
        from_number == Get(message, "from", None)
        msg_type    == Get(message, "type", None)
    IN  IF msg_type = Str("text")
        THEN IF "text" \notin DOMAIN message THEN Raise(r0, "KeyError")
             ELSE IF "body" \notin DOMAIN message["text"] THEN Raise(r0, "KeyError")
             ELSE LET r1 == get_gemini_response(r0, message["text"]["body"], env)
                  IN  IF r1.ret.kind \notin {"none", "empty"}
                      THEN send_whatsapp_message(append_to_sheet(r1, r1.ret, env), from_number,
                                                 Str("Data logged successfully."), env)
                      ELSE send_whatsapp_message(r1, from_number,
                                                 Str("Sorry, I couldn't process that."), env)
        ELSE IF msg_type = Str("image")
        THEN IF "image" \notin DOMAIN message THEN Raise(r0, "KeyError")
             ELSE IF "id" \notin DOMAIN message["image"] THEN Raise(r0, "KeyError")
             ELSE LET image_id == message["image"]["id"]
                      r1 == get_media_url(r0, image_id, env)
                  IN  IF ~Truthy(r1.ret)
                      THEN send_whatsapp_message(r1, from_number,
                                                 Str("Failed to get image URL."), env)
                      ELSE LET r2 == download_media(r1, r1.ret, env)
                           IN  IF ~Truthy(r2.ret)
                               THEN send_whatsapp_message(r2, from_number,
                                        Str("Failed to download image."), env)
                               ELSE LET r3 == upload_to_drive(r2, r2.ret, image_id, env)
                                    IN  IF ~Truthy(r3.ret)
                                        THEN send_whatsapp_message(r3, from_number,
                                                 Str("Failed to upload image."), env)
                                        ELSE send_whatsapp_message(
                                                 log_drive_url(r3, r3.ret, env), from_number,
                                                 Str("Image uploaded"), env)
        ELSE r0

\* for message in ...: handle_message(message); an exception ends the loop.
RECURSIVE handle_messages(_, _, _)
handle_messages(r, messages, env) ==
    IF messages = <<>> \/ r.exc # "" THEN r
    ELSE handle_messages(handle_message(r, Head(messages), env), Tail(messages), env)

\* The messages the three nested loops of lines 42-47 visit, in order.
RECURSIVE messages_of_changes(_)
messages_of_changes(changes) ==
    IF changes = <<>> THEN <<>>
    ELSE LET value == Get(Head(changes), "value", <<>>)
         IN  (IF "messages" \in DOMAIN value THEN value["messages"] ELSE <<>>)
             \o messages_of_changes(Tail(changes))

RECURSIVE messages_of_entries(_)
messages_of_entries(entries) ==
    IF entries = <<>> THEN <<>>
    ELSE messages_of_changes(Get(Head(entries), "changes", <<>>))
         \o messages_of_entries(Tail(entries))

Response(r, status, body) == Return(r, [status |-> status, body |-> body])

\* webhook, GET: echo the challenge when mode is subscribe and the token
\* equals the VERIFY_TOKEN environment variable (None when unset).
webhook_get(r, request, env) ==
    IF request.mode = Str("subscribe") /\ request.token = env.verify_token
    THEN Response(r, "200", request.challenge)
    ELSE Response(r, "403", Str("Forbidden"))

\* webhook, POST, with the result of the signature check ignored.
webhook_post_unchecked(r, request, env) ==
    LET r1 == validate_whatsapp_signature(r, request.data, request.signature,
                                          env.app_secret)
        r2 == Do(r1, Call("validate_whatsapp_signature", None, None, <<>>,
                          IF r1.exc # "" THEN "raised" ELSE r1.ret.v))
    IN  IF r2.exc # "" THEN Response(r2, "500", Str("Internal Server Error"))
        ELSE LET r3 == Do(r2, Call("get_json", None, None, <<>>, request.data.json.kind))
                 data == request.data.json.obj
             IN  IF request.data.json.kind = "notjson"
                 THEN Response(r3, "400", Str("Bad Request"))
                 ELSE IF request.data.json.kind = "nonobject" \/ "entry" \notin DOMAIN data
                 THEN Response(r3, "400", Str("Invalid payload"))
                 ELSE LET r4 == handle_messages(r3, messages_of_entries(data["entry"]), env)
                      IN  IF r4.exc # ""
                          THEN Response(r4, "500", Str("Internal Server Error"))
                          ELSE Response(r4, "200", Str("ok"))

\* webhook, POST: signature, then the JSON body, then every message.  Flask
\* answers 400 when get_json cannot parse the body and 500 when the view raises.
webhook_post(r, request, env) ==
    LET r1 == validate_whatsapp_signature(r, request.data, request.signature,
                                          env.app_secret)
        r2 == Do(r1, Call("validate_whatsapp_signature", None, None, <<>>,
                          IF r1.exc # "" THEN "raised" ELSE r1.ret.v))
    IN  IF r2.exc # "" THEN Response(r2, "500", Str("Internal Server Error"))
        ELSE IF ~Truthy(r2.ret) THEN Response(r2, "403", Str("Forbidden"))
        ELSE LET r3 == Do(r2, Call("get_json", None, None, <<>>, request.data.json.kind))
                 data == request.data.json.obj
             IN  IF request.data.json.kind = "notjson"
                 THEN Response(r3, "400", Str("Bad Request"))
                 ELSE IF request.data.json.kind = "nonobject" \/ "entry" \notin DOMAIN data
                 THEN Response(r3, "400", Str("Invalid payload"))
                 ELSE LET r4 == handle_messages(r3, messages_of_entries(data["entry"]), env)
                      IN  IF r4.exc # ""
                          THEN Response(r4, "500", Str("Internal Server Error"))
                          ELSE Response(r4, "200", Str("ok"))

webhook(r, request, env) ==
    IF request.method = "GET" THEN webhook_get(r, request, env)
    ELSE webhook_post(r, request, env)

(***************************************************************************)
(* Inputs.                                                                 *)
(***************************************************************************)
Senders == {Str("573001"), Str("573002")}

Now == Str("2024-01-01 10:00:00")

\* d with key k set to v / with key k removed.
With(d, k, v) == (k :> v) @@ d

Without(d, k) == [x \in DOMAIN d \ {k} |-> d[x]]

\* The AI result of the specification's example (section 8).
ExampleExpense ==
    ("concept" :> Str("rent")) @@ ("amount" :> Num("50")) @@ ("currency" :> Str("USD"))
    @@ ("category" :> Str("Rent")) @@ ("folder" :> Str("Villa"))
    @@ ("valid_expense" :> Bool(TRUE)) @@ ("date" :> Str("2024-01-01"))

\* JSON objects the AI may answer with: every valid_expense / message
\* combination on the example, and fields missing, null or unexpected on a
\* valid expense.
AiObjects ==
    {Without(ExampleExpense, "valid_expense")}
    \cup {With(ExampleExpense, "valid_expense", f) :
             f \in {Bool(TRUE), Bool(FALSE), None, Num("0"), Str("false")}}
    \cup {With(With(ExampleExpense, "valid_expense", f), "message", m) :
             f \in {Bool(TRUE), Bool(FALSE), None},
             m \in {None, Str(""), Str("No parece un gasto.")}}
    \cup {With(Without(ExampleExpense, "valid_expense"), "message", m) :
             m \in {None, Str(""), Str("No parece un gasto.")}}
    \cup {With(ExampleExpense, "subcategory", x) : x \in {None, Str("Monthly")}}
    \cup {With(ExampleExpense, "date", None), Without(ExampleExpense, "date")}
    \cup {With(ExampleExpense, "folder", x) : x \in {None, Str("Cali"), Str("Unknown")}}
    \cup {Without(ExampleExpense, "folder")}
    \cup {With(ExampleExpense, "concept", x) :
             x \in {None, Str("pago de administracion 2024")}}
    \cup {Without(ExampleExpense, "concept")}
    \cup {With(ExampleExpense, "amount", None), Without(ExampleExpense, "amount")}
    \cup {"valid_expense" :> Bool(TRUE), "valid_expense" :> Bool(FALSE), <<>>}

\* What response.text can be.
AiTexts ==
    {AiText("empty", <<>>), AiText("notjson", <<>>), AiText("nonobject", <<>>)}
    \cup {AiText("object", o) : o \in AiObjects}

\* The answers used where a whole event is run through the pipeline.
EventAiTexts ==
    {AiText("empty", <<>>), AiText("notjson", <<>>), AiText("nonobject", <<>>)}
    \cup {AiText("object", o) :
            o \in {ExampleExpense,
                   With(ExampleExpense, "subcategory", Str("Monthly")),
                   With(ExampleExpense, "valid_expense", Bool(FALSE)),
                   With(With(ExampleExpense, "valid_expense", Bool(FALSE)),
                        "message", Str("No parece un gasto.")),
                   Without(ExampleExpense, "valid_expense"),
                   "valid_expense" :> Bool(TRUE)}}

\* What handle_ai_response can be handed.
AiResponses == {AiNone} \cup AiTexts

GeminiOutcomes == {"no_client", "raises", "responds"}

MediaOutcomes == {"ok", "fail"}

DownloadOutcomes == {"ok", "empty", "fail"}

SheetOutcomes == {"ok", "no_creds", "creds_raise", "append_raise", "file_not_found"}

SendOutcomes == {"ok", "no_creds", "http_error"}

DriveOutcomes == {"ok", "create_raise", "share_raise"}

Mimetypes == {Str("image/jpeg"), Str("application/pdf")}

FileBytes == {None, Str(""), Str("BYTES")}

\* Message objects of a webhook delivery (dicts, as functions from keys).
TextMessage(from, body) ==
    ("from" :> from) @@ ("type" :> Str("text")) @@ ("text" :> ("body" :> body))

MediaMessage(from, kind, info) ==
    ("from" :> from) @@ ("type" :> Str(kind)) @@ (kind :> info)

MediaInfos ==
    {("id" :> Str("MEDIA1")) @@ ("mime_type" :> Str("image/jpeg")),
     ("id" :> Str("MEDIA1")) @@ ("mime_type" :> Str("application/pdf"))
        @@ ("caption" :> Str("factura de la luz")),
     ("id" :> Str("MEDIA1")) @@ ("mime_type" :> Str("image/jpeg")) @@ ("caption" :> Str("")),
     "id" :> Str("MEDIA1"),
     "mime_type" :> Str("image/jpeg")}

Messages ==
    {TextMessage(s, Str("Paid 50 USD rent")) : s \in Senders}
    \cup {MediaMessage(s, k, i) : s \in Senders, k \in {"image", "document"}, i \in MediaInfos}
    \cup {("from" :> s) @@ ("type" :> Str("text")) : s \in Senders}
    \cup {("from" :> s) @@ ("type" :> Str("text")) @@ ("text" :> <<>>) : s \in Senders}
    \cup {("from" :> s) @@ ("type" :> Str("image")) : s \in Senders}
    \cup {("from" :> s) @@ ("type" :> Str("audio")) @@ ("audio" :> ("id" :> Str("MEDIA1"))) :
             s \in Senders}
    \cup {"from" :> s : s \in Senders}
    \cup {("type" :> Str("text")) @@ ("text" :> ("body" :> Str("Paid 50 USD rent")))}

\* The payload that carries the given messages in one entry and one change.
Payload(messages) ==
    "entry" :> << "changes" :> << "value" :> ("messages" :> messages) >> >>

\* Payloads handle_whatsapp_message can be handed: well-formed ones, and ones
\* that lack a key or hold an empty list somewhere on the path to the message.
Payloads ==
    {Payload(<<m>>) : m \in Messages}
    \cup {<<>>,
          "entry" :> <<>>,
          "entry" :> << <<>> >>,
          "entry" :> << "changes" :> <<>> >>,
          "entry" :> << "changes" :> << <<>> >> >>,
          "entry" :> << "changes" :> << "value" :> ("statuses" :> <<>>) >> >>,
          Payload(<<>>)}

Environment(allowed, gemini, ai, url, download, sheet, wa, drive) ==
    [allowed |-> allowed, now |-> Now, gemini |-> gemini, ai |-> ai, url |-> url,
     download |-> download, sheet |-> sheet, wa |-> wa, drive |-> drive,
     app_secret |-> Str("APPSECRET"), verify_token |-> Str("VERIFY")]

\* Request bodies: text that is not JSON, JSON that is not an object, an
\* object without entry, and payloads of up to MaxMessages messages.
MaxMessages == 2

Body(kind, obj) == [json |-> AiText(kind, obj)]

WebhookMessages ==
    {TextMessage(s, Str("Paid 50 USD rent")) : s \in Senders}
    \cup {MediaMessage(Str("573001"), "image", "id" :> Str("MEDIA1")),
          MediaMessage(Str("573001"), "image", <<>>),
          ("from" :> Str("573002")) @@ ("type" :> Str("text")),
          ("type" :> Str("audio"))}

RECURSIVE SeqsUpTo(_, _)
SeqsUpTo(S, n) ==
    IF n = 0 THEN {<<>>}
    ELSE LET shorter == SeqsUpTo(S, n - 1)
         IN  shorter \cup {Append(q, x) : q \in shorter, x \in S}

Bodies ==
    {Body("notjson", <<>>), Body("nonobject", <<>>), Body("object", <<>>),
     Body("object", "entry" :> << "changes" :> << "value" :> ("statuses" :> <<>>) >> >>)}
    \cup {Body("object", Payload(ms)) : ms \in SeqsUpTo(WebhookMessages, MaxMessages)}

\* Signature headers for a body under a secret: the right one, and wrong ones.
Signatures(body) ==
    {NoHeader, Literal(""), Literal("garbage"), Literal("non-ascii"),
     Signed("sha256=", "APPSECRET", body),
     Signed("", "APPSECRET", body),
     Signed("sha256=", "OTHERSECRET", body),
     Signed("sha256=", "APPSECRET", Body("object", <<>>))}

(***************************************************************************)
(* services/secrets.py: get_secret and the module-level cache.             *)
(***************************************************************************)
\* Request threads that may be inside get_secret at the same time.
MaxThreads == 2

Threads == 1..MaxThreads

\* Calls of get_secret in one behaviour.
MaxCalls == 4

\* Versions the secret manager holds of a secret; "versions/latest" (line 52)
\* names the newest.
MaxVersions == 2

\* Two of the ids the services ask for.
SecretIds == {"WHATSAPP_ACCESS_TOKEN", "GEMINI_API_KEY"}

\* The project_id argument, and the GOOGLE_CLOUD_PROJECT environment variable.
ProjectIds == {None, Str("leoai-project")}

\* The payload of version n, decoded (line 54).
SecretValue(n) == Str("value-v" \o ToString(n))

NoCall == [pc |-> "idle", secret_id |-> "", secret_value |-> None, ret |-> None]

\* The module after import: lines 10-19.  The client constructor either
\* succeeds or raises, the cache is the empty dict.
SecretsLoaded(available, project) ==
    /\ CLIENT_AVAILABLE = available
    /\ GOOGLE_CLOUD_PROJECT = project
    /\ cache = <<>>
    /\ upstream = [k \in SecretIds |-> 1]
    /\ thread = [t \in Threads |-> NoCall]
    /\ writes = [k \in SecretIds |-> 0]
    /\ returned = [k \in SecretIds |-> {}]
    /\ ncalls = 0

(***************************************************************************)
(* State: the invocation observed (op, ev), the collaborator calls it      *)
(* made, the rows the spreadsheet took, and how it ended.                  *)
(***************************************************************************)
PipelineIdle ==
    /\ op = "idle"
    /\ ev = <<>>
    /\ calls = <<>>
    /\ rows = <<>>
    /\ result = ""
    /\ ret = None

Init ==
    /\ PipelineIdle
    /\ SecretsLoaded(TRUE, Str("leoai-project"))

Finish(name, input, r) ==
    /\ op' = name
    /\ ev' = input
    /\ calls' = r.calls
    /\ rows' = r.rows
    /\ result' = IF r.exc = "" THEN "returned" ELSE r.exc
    /\ ret' = r.ret
    /\ UNCHANGED secretVars

\* handle_ai_response(timestamp, sender_phone, ai_response, file_bytes, mimetype)
HandleAiResponse ==
    /\ op = "idle"
    /\ \E sender_phone \in Senders, ai_response \in AiResponses,
          file_bytes \in FileBytes, mimetype \in Mimetypes \cup {None},
          sheet \in SheetOutcomes, wa \in SendOutcomes, drive \in DriveOutcomes :
          LET env == Environment({}, "responds", ai_response, "ok", "ok", sheet, wa, drive)
          IN  Finish("handle_ai_response",
                     [timestamp |-> Now, sender_phone |-> sender_phone,
                      ai_response |-> ai_response, file_bytes |-> file_bytes,
                      mimetype |-> mimetype, env |-> env],
                     handle_ai_response(NewRun, Now, sender_phone, ai_response,
                                        file_bytes, mimetype, env))

\* process_media_message(sender_phone, media_id, caption, timestamp, message_type)
ProcessMediaMessage ==
    /\ op = "idle"
    /\ \E sender_phone \in Senders, caption \in {Str(""), Str("factura de la luz")},
          message_type \in {Str("image"), Str("document")},
          url \in MediaOutcomes, download \in DownloadOutcomes,
          gemini \in GeminiOutcomes, ai \in EventAiTexts :
          LET env == Environment({}, gemini, ai, url, download, "ok", "ok", "ok")
              r   == process_media_message(NewRun, sender_phone, Str("MEDIA1"), caption,
                                           Now, message_type, env)
          IN  /\ gemini # "responds" => ai = AiText("empty", <<>>)
              /\ Finish("process_media_message",
                        [sender_phone |-> sender_phone, caption |-> caption,
                         message_type |-> message_type, env |-> env],
                        r)

\* handle_whatsapp_message(data)
HandleWhatsappMessage ==
    /\ op = "idle"
    /\ \E data \in Payloads, allowed \in SUBSET Senders,
          gemini \in GeminiOutcomes, ai \in EventAiTexts,
          url \in MediaOutcomes, download \in DownloadOutcomes,
          sheet \in SheetOutcomes, wa \in SendOutcomes :
          LET env == Environment(allowed, gemini, ai, url, download, sheet, wa, "ok")
          IN  /\ gemini # "responds" => ai = AiText("empty", <<>>)
              /\ Finish("handle_whatsapp_message",
                        [data |-> data, env |-> env],
                        handle_whatsapp_message(NewRun, data, env))

\* POST /webhook
WebhookPost ==
    /\ op = "idle"
    /\ \E data \in Bodies, app_secret \in {None, Str("APPSECRET")},
          allowed \in {{}, {Str("573001")}}, gemini \in {"responds", "raises"},
          url \in MediaOutcomes, download \in {"ok", "fail"},
          sheet \in {"ok", "append_raise"}, drive \in {"ok", "create_raise"} :
          \E signature \in Signatures(data) :
              LET env == [Environment(allowed, gemini, AiText("object", ExampleExpense),
                                      url, download, sheet, "ok", drive)
                            EXCEPT !.app_secret = app_secret]
                  request == [method |-> "POST", data |-> data, signature |-> signature]
              IN  Finish("webhook_post", [request |-> request, env |-> env],
                         webhook(NewRun, request, env))

\* GET /webhook
WebhookGet ==
    /\ op = "idle"
    /\ \E mode \in {None, Str("subscribe"), Str("unsubscribe")},
          token \in {None, Str("VERIFY"), Str("WRONG")},
          verify_token \in {None, Str("VERIFY")} :
              LET env == [Environment({}, "responds", AiNone, "ok", "ok", "ok", "ok", "ok")
                            EXCEPT !.verify_token = verify_token]
                  request == [method |-> "GET", mode |-> mode, token |-> token,
                              challenge |-> Str("CHALLENGE")]
              IN  Finish("webhook_get", [request |-> request, env |-> env],
                         webhook(NewRun, request, env))

\* The observation of a finished invocation is dropped before the next one:
\* the pipeline keeps nothing from one event to the next.
NextEvent ==
    /\ op # "idle"
    /\ op' = "idle"
    /\ ev' = <<>>
    /\ calls' = <<>>
    /\ rows' = <<>>
    /\ result' = ""
    /\ ret' = None
    /\ UNCHANGED secretVars

Next ==
    \/ HandleAiResponse
    \/ ProcessMediaMessage
    \/ HandleWhatsappMessage
    \/ WebhookPost
    \/ WebhookGet
    \/ NextEvent

Spec == Init /\ [][Next]_vars

(***************************************************************************)
(* get_secret, one action per stretch of code that runs without giving     *)
(* another thread the chance to run in between.  Nothing in the function   *)
(* takes a lock.                                                           *)
(***************************************************************************)
pipelineVars == <<op, ev, calls, rows, result, ret>>

\* A call that ends: the value goes to the caller, and a value other than
\* None is remembered as returned for the key.
SecretReturn(t, secret_id, value) ==
    /\ thread' = [thread EXCEPT ![t] = [NoCall EXCEPT !.secret_id = secret_id,
                                                      !.ret = value]]
    /\ returned' = IF value = None THEN returned
                   ELSE [returned EXCEPT ![secret_id] = @ \cup {value}]

\* Lines 34-53: the client check, the cache lookup, the project id, and the
\* request to the secret manager going out.
GetSecretCall(t, secret_id, project_id) ==
    /\ thread[t].pc = "idle"
    /\ ncalls < MaxCalls
    /\ ncalls' = ncalls + 1
    /\ IF ~CLIENT_AVAILABLE
       THEN SecretReturn(t, secret_id, None)
       ELSE IF secret_id \in DOMAIN cache
       THEN SecretReturn(t, secret_id, cache[secret_id])
       ELSE IF ~Truthy(Or(project_id, GOOGLE_CLOUD_PROJECT))
       THEN SecretReturn(t, secret_id, None)
       ELSE /\ thread' = [thread EXCEPT ![t] = [NoCall EXCEPT !.pc = "waiting",
                                                             !.secret_id = secret_id]]
            /\ UNCHANGED returned
    /\ UNCHANGED <<CLIENT_AVAILABLE, GOOGLE_CLOUD_PROJECT, cache, upstream, writes>>
    /\ UNCHANGED pipelineVars

\* Lines 53-54: access_secret_version answers with the latest version.
GetSecretResponse(t) ==
    /\ thread[t].pc = "waiting"
    /\ thread' = [thread EXCEPT ![t].pc = "store",
                                ![t].secret_value = SecretValue(upstream[thread[t].secret_id])]
    /\ UNCHANGED <<CLIENT_AVAILABLE, GOOGLE_CLOUD_PROJECT, cache, upstream, writes,
                   returned, ncalls>>
    /\ UNCHANGED pipelineVars

\* The except clause remembering the failure: None is put into the cache for
\* the key before it is returned.
GetSecretFailure_cached(t) ==
    /\ thread[t].pc = "waiting"
    /\ cache' = (thread[t].secret_id :> None) @@ cache
    /\ SecretReturn(t, thread[t].secret_id, None)
    /\ UNCHANGED <<CLIENT_AVAILABLE, GOOGLE_CLOUD_PROJECT, upstream, writes, ncalls>>
    /\ UNCHANGED pipelineVars

\* Lines 53-54 and 60-62: access_secret_version or the decoding raises; the
\* except clause returns None.
GetSecretFailure(t) ==
    /\ thread[t].pc = "waiting"
    /\ SecretReturn(t, thread[t].secret_id, None)
    /\ UNCHANGED <<CLIENT_AVAILABLE, GOOGLE_CLOUD_PROJECT, cache, upstream, writes, ncalls>>
    /\ UNCHANGED pipelineVars

\* Lines 56-59: the value is put into the cache and returned.
GetSecretStore(t) ==
    /\ thread[t].pc = "store"
    /\ cache' = (thread[t].secret_id :> thread[t].secret_value) @@ cache
    /\ writes' = [writes EXCEPT ![thread[t].secret_id] = @ + 1]
    /\ SecretReturn(t, thread[t].secret_id, thread[t].secret_value)
    /\ UNCHANGED <<CLIENT_AVAILABLE, GOOGLE_CLOUD_PROJECT, upstream, ncalls>>
    /\ UNCHANGED pipelineVars

\* The secret manager gets a new version of a secret: "versions/latest"
\* (line 52) names another payload from now on.
RotateSecret(secret_id) ==
    /\ upstream[secret_id] < MaxVersions
    /\ upstream' = [upstream EXCEPT ![secret_id] = @ + 1]
    /\ UNCHANGED <<CLIENT_AVAILABLE, GOOGLE_CLOUD_PROJECT, cache, thread, writes,
                   returned, ncalls>>
    /\ UNCHANGED pipelineVars

InitSecrets ==
    /\ PipelineIdle
    /\ \E available \in BOOLEAN, project \in ProjectIds : SecretsLoaded(available, project)

NextSecrets ==
    \/ \E t \in Threads, secret_id \in SecretIds, project_id \in ProjectIds :
          GetSecretCall(t, secret_id, project_id)
    \/ \E t \in Threads : GetSecretResponse(t)
    \/ \E t \in Threads : GetSecretFailure(t)
    \/ \E t \in Threads : GetSecretStore(t)
    \/ \E secret_id \in SecretIds : RotateSecret(secret_id)

SpecSecrets == InitSecrets /\ [][NextSecrets]_vars

(***************************************************************************)
(* Properties.                                                             *)
(***************************************************************************)
CallsOf(name) == SelectSeq(calls, LAMBDA c : c.op = name)

Count(name) == Len(CallsOf(name))

Sends == CallsOf("send_whatsapp_message")

\* The message of a handle_whatsapp_message event and its sender, when the
\* payload holds them.
HasSender ==
    /\ op = "handle_whatsapp_message"
    /\ first_message(ev.data).exc = ""
    /\ "from" \in DOMAIN first_message(ev.data).val

EventMessage == first_message(ev.data).val

EventSender == EventMessage["from"]

\* C1: an event handled by handle_whatsapp_message whose sender is not in the
\* list the allow-list lookup returned gets exactly one notification, the
\* fixed denial message, sent to that sender; no row is appended, and the AI
\* extraction, the media resolver and the file upload are not invoked.
C1_DenialOnly ==
    (HasSender /\ EventSender \notin ev.env.allowed) =>
        /\ Len(Sends) = 1
        /\ Sends[1].to = EventSender
        /\ Sends[1].msg = MsgDenied
        /\ rows = <<>>
        /\ Count("add_row_to_sheet") = 0
        /\ Count("generate_content") = 0
        /\ Count("get_media_url") = 0
        /\ Count("download_media_content") = 0
        /\ Count("save_file") = 0
        /\ result = "returned"

\* A text event with a valid expense answer from a sender outside a non-empty
\* allow-list has been handled.
C1_Witness ==
    /\ HasSender
    /\ EventSender \notin ev.env.allowed
    /\ ev.env.allowed # {}
    /\ Get(EventMessage, "type", None) = Str("text")
    /\ "text" \in DOMAIN EventMessage
    /\ "body" \in DOMAIN EventMessage["text"]
    /\ ev.env.gemini = "responds"
    /\ ev.env.ai = AiText("object", ExampleExpense)
    /\ Len(Sends) = 1

\* The AI payload handed to handle_ai_response parses as JSON and its
\* valid_expense is false or missing.
InvalidExpensePayload ==
    /\ op = "handle_ai_response"
    /\ ev.ai_response.kind = "object"
    /\ \/ "valid_expense" \notin DOMAIN ev.ai_response.obj
       \/ ev.ai_response.obj["valid_expense"] = Bool(FALSE)

\* C2: in handle_ai_response, a payload that parses as JSON and whose
\* valid_expense is false or missing never reaches add_row_to_sheet or
\* save_file: no row, no upload, whatever the other fields and the media.
C2_InvalidNeverPersisted ==
    InvalidExpensePayload =>
        /\ Count("add_row_to_sheet") = 0
        /\ Count("save_file") = 0
        /\ rows = <<>>

\* An invalid expense with every other field populated, with media and with
\* a working spreadsheet, has been handled.
C2_Witness ==
    /\ InvalidExpensePayload
    /\ ev.ai_response.obj = With(ExampleExpense, "valid_expense", Bool(FALSE))
    /\ ev.file_bytes = Str("BYTES")
    /\ ev.mimetype = Str("image/jpeg")
    /\ ev.env.sheet = "ok"
    /\ result = "returned"

\* An image or document message that carries its media id and mimetype.
MediaEvent ==
    /\ HasSender
    /\ Get(EventMessage, "type", None) \in {Str("image"), Str("document")}
    /\ EventMessage["type"].v \in DOMAIN EventMessage
    /\ {"id", "mime_type"} \subseteq DOMAIN EventMessage[EventMessage["type"].v]

\* C3: for an image or document event from an allow-listed sender whose media
\* url resolution or download fails, handle_whatsapp_message appends no row,
\* sends exactly one notification to the sender, does not call the AI
\* extraction and returns without raising.
C3_MediaFailureNotified ==
    (MediaEvent /\ EventSender \in ev.env.allowed
        /\ (ev.env.url = "fail" \/ ev.env.download = "fail")) =>
        /\ rows = <<>>
        /\ Len(Sends) = 1
        /\ Sends[1].to = EventSender
        /\ Count("generate_content") = 0
        /\ result = "returned"

SuccessSent == \E i \in 1..Len(Sends) : Sends[i].msg = MsgSuccess

\* C4: when the append fails inside add_row_to_sheet (credentials missing or
\* the append call raising) the success notification is not sent and the
\* sender gets a failure notification instead; the success notification is
\* sent only after a row was appended.
C4_NoSuccessWithoutRow ==
    (op \in {"handle_ai_response", "handle_whatsapp_message"}) =>
        /\ SuccessSent => rows # <<>>
        /\ (\E i \in 1..Len(calls) :
                /\ calls[i].op = "add_row_to_sheet"
                /\ calls[i].st \in {"no_creds", "append_raise"})
            => (~SuccessSent /\ Len(Sends) = 1)

\* handle_ai_response was handed media and a JSON object with valid_expense true.
ValidMediaExpense ==
    /\ op = "handle_ai_response"
    /\ ev.ai_response.kind = "object"
    /\ Get(ev.ai_response.obj, "valid_expense", None) = Bool(TRUE)
    /\ Truthy(ev.file_bytes)
    /\ Truthy(ev.mimetype)

\* The upload step ran to its end: the file was created and shared.
UploadCompleted ==
    \E i \in 1..Len(calls) : calls[i].op = "permissions.create" /\ calls[i].st = "ok"

\* C5: for media with a valid expense, a failure inside the upload step does
\* not prevent the row append: add_row_to_sheet is called exactly once, after
\* the upload attempt, and the file-link column of its row holds no link.
C5_UploadFailureKeepsRow ==
    (ValidMediaExpense /\ ~UploadCompleted) =>
        /\ Count("save_file") = 1
        /\ Count("add_row_to_sheet") = 1
        /\ CallsOf("add_row_to_sheet")[1].args[9] \in {None, Str("")}
        /\ \E i, j \in 1..Len(calls) :
              i < j /\ calls[i].op = "save_file" /\ calls[j].op = "add_row_to_sheet"

\* A valid expense with a pdf attachment was handled, the upload gave no link
\* and the spreadsheet took the row.
C5_Witness ==
    /\ ValidMediaExpense
    /\ ~UploadCompleted
    /\ ev.mimetype = Str("application/pdf")
    /\ ev.env.sheet = "ok"
    /\ Len(rows) = 1
    /\ rows[1][9] = None

\* C6: for every payload and every combination of collaborator failures,
\* handle_whatsapp_message returns normally: no exception reaches its caller.
C6_NeverRaises ==
    op = "handle_whatsapp_message" => result = "returned"

\* handle_ai_response was handed text that is not valid JSON (the empty
\* string included).
NotJsonPayload ==
    /\ op = "handle_ai_response"
    /\ ev.ai_response.kind \in {"empty", "notjson"}

\* C7, as stated: for every AI payload that is not valid JSON,
\* handle_ai_response appends no row, uploads no file and sends exactly one
\* notification, the parse-failure message, to the sender.
C7_AlwaysParseFailureMessage ==
    NotJsonPayload =>
        /\ rows = <<>>
        /\ Count("add_row_to_sheet") = 0
        /\ Count("save_file") = 0
        /\ Len(Sends) = 1
        /\ Sends[1].to = ev.sender_phone
        /\ Sends[1].msg = MsgNotJson

\* C7, amended: for every AI payload that is not valid JSON,
\* handle_ai_response appends no row, uploads no file and sends exactly one
\* notification to the sender: the parse-failure message for a non-empty
\* payload, the empty-response message for the empty string.
C7_NotJsonOneNotification ==
    NotJsonPayload =>
        /\ rows = <<>>
        /\ Count("add_row_to_sheet") = 0
        /\ Count("save_file") = 0
        /\ Len(calls) = 1
        /\ Len(Sends) = 1
        /\ Sends[1].to = ev.sender_phone
        /\ Sends[1].msg = IF ev.ai_response.kind = "empty" THEN MsgEmptyAi ELSE MsgNotJson
        /\ result = "returned"

\* Non-empty text that is not JSON, handed over together with media, got the
\* parse-failure message.
C7_Witness ==
    /\ NotJsonPayload
    /\ ev.ai_response.kind = "notjson"
    /\ ev.file_bytes = Str("BYTES")
    /\ ev.mimetype = Str("image/jpeg")
    /\ Len(Sends) = 1
    /\ Sends[1].msg = MsgNotJson

\* A text event from an allow-listed sender that the AI answered with a JSON
\* object whose valid_expense is true.
ValidTextEvent ==
    /\ HasSender
    /\ EventSender \in ev.env.allowed
    /\ Get(EventMessage, "type", None) = Str("text")
    /\ "text" \in DOMAIN EventMessage
    /\ "body" \in DOMAIN EventMessage["text"]
    /\ ev.env.gemini = "responds"
    /\ ev.env.ai.kind = "object"
    /\ Get(ev.env.ai.obj, "valid_expense", None) = Bool(TRUE)

\* The row of the column contract, a field the AI left out taking the value
\* absent (the date: absentDate).
ContractRow(absent, absentDate) ==
    <<IF Truthy(Get(ev.env.ai.obj, "date", None)) THEN ev.env.ai.obj["date"] ELSE absentDate,
      Get(ev.env.ai.obj, "concept", absent),
      Get(ev.env.ai.obj, "amount", absent),
      Get(ev.env.ai.obj, "currency", absent),
      Get(ev.env.ai.obj, "category", absent),
      Get(ev.env.ai.obj, "subcategory", absent),
      EventSender,
      ev.env.now,
      Str("")>>

\* One success notification, sent after the append.
SuccessAfterAppend ==
    /\ Len(Sends) = 1
    /\ Sends[1].to = EventSender
    /\ Sends[1].msg = MsgSuccess
    /\ calls[Len(calls)].op = "send_whatsapp_message"
    /\ calls[Len(calls) - 1].op = "add_row_to_sheet"

SignatureRejected ==
    /\ op = "webhook_post"
    /\ Count("validate_whatsapp_signature") = 1
    /\ CallsOf("validate_whatsapp_signature")[1].st = "false"

\* C9: on POST /webhook, when validate_whatsapp_signature returns false the
\* handler answers 403 with no side effect: the body is not parsed,
\* handle_message is not called, and there is no AI call, append, upload or
\* outbound message; the signature is always validated before the JSON body
\* is read.
C9_RejectedBeforeParsing ==
    /\ SignatureRejected =>
          /\ ret.status = "403"
          /\ result = "returned"
          /\ Len(calls) = 1
          /\ rows = <<>>
    /\ op = "webhook_post" =>
          /\ calls[1].op = "validate_whatsapp_signature"
          /\ \A i \in 1..Len(calls) :
                calls[i].op = "get_json" => (i > 1 /\ calls[1].st = "true")

\* A POST whose body carries a text message, signed under another secret,
\* was answered 403.
C9_Witness ==
    /\ SignatureRejected
    /\ ev.request.signature = Signed("sha256=", "OTHERSECRET", ev.request.data)
    /\ ev.request.data = Body("object", Payload(<<TextMessage(Str("573001"), Str("Paid 50 USD rent"))>>))
    /\ ev.env.app_secret = Str("APPSECRET")
    /\ ret.status = "403"

\* The messages a POST delivered with a valid signature.
DeliveredMessages ==
    IF /\ op = "webhook_post"
       /\ CallsOf("validate_whatsapp_signature")[1].st = "true"
       /\ ev.request.data.json.kind = "object"
       /\ "entry" \in DOMAIN ev.request.data.json.obj
    THEN messages_of_entries(ev.request.data.json.obj["entry"])
    ELSE <<>>

\* C10: for the messages delivered through POST /webhook with a valid
\* signature, no AI extraction call, spreadsheet append or file upload is
\* performed unless the sender is in the AuthorizationList; a sender outside
\* it only receives the denial notification.
C10_WebhookAuthorizes ==
    (/\ DeliveredMessages # <<>>
     /\ \A i \in 1..Len(DeliveredMessages) :
           Get(DeliveredMessages[i], "from", None) \notin ev.env.allowed) =>
        /\ Count("get_gemini_response") = 0
        /\ Count("generate_content") = 0
        /\ Count("append_to_sheet") = 0
        /\ Count("add_row_to_sheet") = 0
        /\ Count("upload_to_drive") = 0
        /\ rows = <<>>
        /\ \A i \in 1..Len(Sends) : Sends[i].msg = MsgDenied

\* handle_ai_response was handed a JSON object whose valid_expense is false.
RejectedExpense ==
    /\ op = "handle_ai_response"
    /\ ev.ai_response.kind = "object"
    /\ Get(ev.ai_response.obj, "valid_expense", None) = Bool(FALSE)

\* C11: when the AI result parses and valid_expense is false, the one
\* notification sent to the sender is the AI-supplied message when that is
\* non-empty and the default invalid-expense message otherwise; nothing else
\* (no data-preparation error, no success message) is sent.
C11_InvalidExpenseMessage ==
    RejectedExpense =>
        /\ Len(Sends) = 1
        /\ Sends[1].to = ev.sender_phone
        /\ Sends[1].msg = Or(Get(ev.ai_response.obj, "message", None), MsgInvalidExpense)

\* The five folder values of the taxonomy.
FolderEnum ==
    {Str("Salitre"), Str("Tramonte"), Str("Villa"), Str("Manuela Sancho"), Str("Unknown")}

\* C13: for a JSON-decodable AI payload whose folder is outside the five
\* values (null included) or missing, the folder handle_ai_response uses
\* downstream, the prefix of the uploaded file's name, is Unknown.
C13_FolderCoerced ==
    (ValidMediaExpense
        /\ Get(ev.ai_response.obj, "folder", Str("Unknown")) \notin FolderEnum \ {Str("Unknown")}) =>
        /\ Count("save_file") = 1
        /\ CallsOf("save_file")[1].args[2].folder = Str("Unknown")

\* A POST passed the signature check and its JSON body holds an entry key.
AcceptedDelivery ==
    /\ op = "webhook_post"
    /\ CallsOf("validate_whatsapp_signature")[1].st = "true"
    /\ ev.request.data.json.kind = "object"
    /\ "entry" \in DOMAIN ev.request.data.json.obj

\* C14: a POST that passes the signature check and contains an entry key is
\* answered 200 whatever happens inside message handling; no exception is
\* left unhandled and no 5xx is answered.
C14_AlwaysAcknowledged ==
    AcceptedDelivery =>
        /\ ret.status = "200"
        /\ result = "returned"

\* C16: on GET /webhook the challenge is echoed with 200 only if mode is
\* subscribe and the supplied token equals a configured verification
\* secret; every other request, also one without token when no secret is
\* configured, is answered 403.
C16_ChallengeOnlyWithSecret ==
    op = "webhook_get" =>
        IF /\ ev.request.mode = Str("subscribe")
           /\ ev.env.verify_token # None
           /\ ev.request.token = ev.env.verify_token
        THEN ret = [status |-> "200", body |-> ev.request.challenge]
        ELSE ret.status = "403"

\* C17: validate_whatsapp_signature returns true when the header is sha256=
\* followed by the hex HMAC-SHA256 of the body under the secret, and false,
\* without raising, for every other input, an unset secret included.
C17_SignatureNeverRaises ==
    op = "webhook_post" =>
        LET st == CallsOf("validate_whatsapp_signature")[1].st
        IN  /\ st \in {"true", "false"}
            /\ st = "true" <=>
                  /\ ev.env.app_secret # None
                  /\ ev.request.signature =
                        Signed("sha256=", ev.env.app_secret.v, ev.request.data)

\* C20: whenever process_media_message has downloaded media bytes, the
\* request to the AI carries those bytes with their mimetype and the caption
\* as text, or a non-empty default prompt when the caption is empty; the AI
\* is never called with empty contents.
C20_RequestCarriesMedia ==
    (op = "process_media_message" /\ Count("generate_content") = 1) =>
        LET contents == CallsOf("generate_content")[1].args
        IN  /\ Len(contents) = 3
            /\ contents[1] = Str("BYTES")
            /\ Truthy(contents[2])
            /\ contents[3] = IF Truthy(ev.caption) THEN ev.caption ELSE DefaultPrompt

\* A text event from an allow-listed sender whose AI extraction failed: no
\* client, or the generate_content call raising.
ExtractionFailedEvent ==
    /\ HasSender
    /\ EventSender \in ev.env.allowed
    /\ Get(EventMessage, "type", None) = Str("text")
    /\ "text" \in DOMAIN EventMessage
    /\ "body" \in DOMAIN EventMessage["text"]
    /\ ev.env.gemini \in {"no_client", "raises"}

\* C15: a text event from an allow-listed sender whose AI extraction fails
\* appends no row, uploads nothing, sends exactly one notification, the
\* empty-answer apology, to the sender, and the handler returns normally.
C15_ExtractionFailureApology ==
    ExtractionFailedEvent =>
        /\ rows = <<>>
        /\ Count("add_row_to_sheet") = 0
        /\ Count("save_file") = 0
        /\ ~UploadCompleted
        /\ Len(Sends) = 1
        /\ Sends[1].to = EventSender
        /\ Sends[1].msg = MsgEmptyAi
        /\ result = "returned"

\* The generate_content call of a text event from an allow-listed sender
\* raised, and the sender got the apology.
C15_Witness ==
    /\ ExtractionFailedEvent
    /\ ev.env.gemini = "raises"
    /\ Count("generate_content") = 1
    /\ Len(Sends) = 1
    /\ Sends[1].msg = MsgEmptyAi
    /\ result = "returned"

\* An event from an allow-listed sender whose message kind is not text,
\* image or document.
UnsupportedEvent ==
    /\ HasSender
    /\ EventSender \in ev.env.allowed
    /\ Get(EventMessage, "type", None) \notin {Str("text"), Str("image"), Str("document")}

\* C18: an event of unsupported kind from an allow-listed sender is only
\* logged: no AI call, no row, no upload and no notification to the sender.
C18_UnsupportedSilent ==
    UnsupportedEvent =>
        /\ Count("generate_content") = 0
        /\ rows = <<>>
        /\ Count("add_row_to_sheet") = 0
        /\ Count("save_file") = 0
        /\ Len(Sends) = 0
        /\ result = "returned"

\* The calls of get_secret that have a request for the key out, or its answer
\* in hand and not yet in the cache.
Fetching(secret_id) ==
    {t \in Threads : thread[t].pc \in {"waiting", "store"} /\ thread[t].secret_id = secret_id}

\* C12: single-flight on a miss: at no time have two calls of get_secret
\* each issued an upstream fetch for the same key that is not in the cache.
C12_SingleFlight ==
    \A secret_id \in SecretIds :
        secret_id \notin DOMAIN cache => Cardinality(Fetching(secret_id)) <= 1

\* C19: the cache is write-once per key: the entry of a key is written at
\* most once, and all successful calls for the key have returned one and the
\* same value, whatever the secret manager holds by now.
C19_WriteOnce ==
    \A secret_id \in SecretIds :
        /\ writes[secret_id] <= 1
        /\ Cardinality(returned[secret_id]) <= 1

\* C21: for media with a valid expense, save_file attempts exactly one upload
\* (one files.create request), into the month folder of the date or into the
\* parent folder, and no folder is created.
C21_OneUploadAttempt ==
    ValidMediaExpense =>
        /\ Count("save_file") = 1
        /\ Count("files.create") = 1
        /\ CallsOf("files.create")[1].args[2] \in {Str("root"), Str("month-folder")}
        /\ Count("folders.create") = 0

\* Every call of collaborator b was made after a call of collaborator a that
\* ended with outcome st.
OnlyAfter(a, st, b) ==
    \A j \in 1..Len(calls) :
        calls[j].op = b => \E i \in 1..(j - 1) : calls[i].op = a /\ calls[i].st = st

\* The invocations of the service layer: the handler and the two functions
\* it hands an event over to.
ServiceInvocation ==
    op \in {"handle_whatsapp_message", "process_media_message", "handle_ai_response"}

\* The invocation is about an image or a document.
CarriesMedia ==
    \/ op = "process_media_message"
    \/ /\ HasSender
       /\ Get(EventMessage, "type", None) \in {Str("image"), Str("document")}

\* The AI result the invocation worked on was JSON text for an object.
AiResultParsed ==
    CASE op = "handle_ai_response" -> ev.ai_response.kind = "object"
      [] op = "handle_whatsapp_message" ->
            /\ ev.env.ai.kind = "object"
            /\ OnlyAfter("generate_content", "responds", "add_row_to_sheet")
      [] OTHER -> FALSE

\* C22: within one invocation nothing is retried: the media-url lookup, the
\* download, the AI extraction and the spreadsheet append are each invoked at
\* most once; the download only after the lookup gave a url; for media, the AI
\* call only after the download gave bytes; the append only after the AI
\* result was parsed.
C22_NoRetryInOrder ==
    ServiceInvocation =>
        /\ Count("get_media_url") <= 1
        /\ Count("download_media_content") <= 1
        /\ Count("generate_content") <= 1
        /\ Count("add_row_to_sheet") <= 1
        /\ OnlyAfter("get_media_url", "ok", "download_media_content")
        /\ CarriesMedia => OnlyAfter("download_media_content", "ok", "generate_content")
        /\ Count("add_row_to_sheet") = 1 => AiResultParsed

\* process_media_message went through its whole chain: one lookup, one
\* download, one AI call, in this order.
C22_Witness ==
    /\ op = "process_media_message"
    /\ Len(calls) = 3
    /\ calls[1].op = "get_media_url"
    /\ calls[2].op = "download_media_content"
    /\ calls[3].op = "generate_content"
    /\ ev.env.gemini = "responds"
    /\ result = "returned"

\* The cache holds the same entries before and after the step.
SameCache ==
    /\ DOMAIN cache' = DOMAIN cache
    /\ \A secret_id \in DOMAIN cache : cache'[secret_id] = cache[secret_id]

\* The step ends a call of thread t in failure: the fetch it waited for
\* raised, or the call ended at once although the key has no cache entry
\* (no client, or no project id).
FailedCall(t) ==
    \/ thread[t].pc = "waiting" /\ thread'[t].pc = "idle"
    \/ /\ thread[t].pc = "idle"
       /\ thread'[t].pc = "idle"
       /\ ncalls' = ncalls + 1
       /\ thread'[t].secret_id # ""
       /\ (~CLIENT_AVAILABLE \/ thread'[t].secret_id \notin DOMAIN cache)

\* Every entry of the cache is a value a fetch for the key has answered and
\* a call has stored: a version the secret manager holds or has held.
OnlyFetchedValues ==
    \A secret_id \in SecretIds :
        IF secret_id \in DOMAIN cache
        THEN /\ writes[secret_id] >= 1
             /\ cache[secret_id] \in {SecretValue(n) : n \in 1..upstream[secret_id]}
        ELSE writes[secret_id] = 0

====
